---- MODULE Spec2Model ----
(***************************************************************************)
(* Model of the song-search client (Source/static/script.js): the search   *)
(* form, the asynchronous search request, the persisted search history     *)
(* (localStorage key 'searchHistory'), the history sidebar with replay     *)
(* from cache and the confirmation modal.                                  *)
(*                                                                         *)
(* Conventions.                                                            *)
(*  - A JavaScript string that the code converts (trim, escapeHtml, the    *)
(*    onclick attribute of a history item) is a sequence of one-character  *)
(*    strings; "BS" stands for the single character U+0008.                *)
(*  - Literal user-facing texts are opaque string tokens (English          *)
(*    renderings of the Russian literals of the source).                   *)
(*  - An optional value (undefined / null / absent) is the empty sequence, *)
(*    a present one is the one-element sequence <<v>>.                     *)
(***************************************************************************)
EXTENDS Integers, Sequences, FiniteSets, TLC

VARIABLES
    queryInputValue,      \* queryInput.value
    queryInputDisabled,   \* queryInput.disabled
    searchBtnDisabled,    \* searchBtn.disabled
    statusMessage,        \* statusMessage: [hidden, type, text]
    resultsSectionHidden, \* resultsSection has class 'hidden'
    candidatesList,       \* the rendered candidate cards
    selectedSong,         \* the rendered selection panel
    reasoningSection,     \* [hidden, text]
    historySidebarActive, \* historySidebar / sidebarOverlay have class 'active'
    confirmModalActive,   \* confirmModal / confirmModalOverlay have class 'active'
    bodyOverflow,         \* document.body.style.overflow
    confirmCallback,      \* let confirmCallback
    currentSearchResult,  \* let currentSearchResult
    localStorage,         \* localStorage item 'searchHistory'
    historyList,          \* the rendered history items
    pendingSearches,      \* searchSongs calls suspended at await fetch(...)
    healthPending,        \* the load handler is suspended at await fetch('/api/health')
    now,                  \* Date.now(), as the number of history entries written so far
    insertLog,            \* history variable: the entries saved since the last clear, newest first
    feedbackGate          \* the feedback gate of the displayed result: [submitted, sent]

vars == <<queryInputValue, queryInputDisabled, searchBtnDisabled, statusMessage,
          resultsSectionHidden, candidatesList, selectedSong, reasoningSection,
          historySidebarActive, confirmModalActive, bodyOverflow, confirmCallback,
          currentSearchResult, localStorage, historyList, pendingSearches,
          healthPending, now, insertLog, feedbackGate>>

(***************************************************************************)
(* Optional values                                                         *)
(***************************************************************************)
None == <<>>

Some(v) == <<v>>

\* a || b for an optional a
OrElse(a, b) == IF a # None THEN a[1] ELSE b

(***************************************************************************)
(* Bounds of the model                                                     *)
(***************************************************************************)
\* history entries written in one behaviour of Spec
MaxSaves == 3

\* history entries written in one behaviour of SpecCards
MaxSavesCards == 2

\* history entries written in one behaviour of SpecDeep
MaxSavesDeep == 12

\* history entries written in one behaviour of SpecEscape
MaxSavesEscape == 3

\* history entries written in one behaviour of SpecFeedback
MaxSavesFeedback == 2

\* history entries written in one behaviour of SpecLive
MaxSavesLive == 2

\* history entries written in one behaviour of SpecLyrics
MaxSavesLyrics == 1

\* history entries written in one behaviour of SpecScores
MaxSavesScores == 1

(***************************************************************************)
(* Strings                                                                 *)
(***************************************************************************)
WhiteSpace == {" ", "\t", "\n"}

RECURSIVE trimStart(_)
trimStart(s) ==
    IF s # <<>> /\ Head(s) \in WhiteSpace THEN trimStart(Tail(s)) ELSE s

RECURSIVE trimEnd(_)
trimEnd(s) ==
    IF s # <<>> /\ s[Len(s)] \in WhiteSpace
    THEN trimEnd(SubSeq(s, 1, Len(s) - 1))
    ELSE s

\* mutant of trim: the value is used as entered
trimOmitted(s) == s

\* String.prototype.trim
trim(s) == trimEnd(trimStart(s))

\* escapeHtml: the innerHTML of a text node escapes & < > (and nothing else
\* of the characters used here; quotes are left alone)
\* (character by character, so the text is escaped half by half)
RECURSIVE escapeHtml(_)
escapeHtml(text) ==
    IF text = <<>> THEN <<>>
    ELSE IF Len(text) = 1
         THEN LET c == Head(text)
              IN  CASE c = "&" -> <<"&", "a", "m", "p", ";">>
                    [] c = "<" -> <<"&", "l", "t", ";">>
                    [] c = ">" -> <<"&", "g", "t", ";">>
                    [] OTHER   -> <<c>>
    ELSE LET half == Len(text) \div 2
         IN  escapeHtml(SubSeq(text, 1, half)) \o escapeHtml(SubSeq(text, half + 1, Len(text)))

IsPrefix(p, s) == Len(p) <= Len(s) /\ SubSeq(s, 1, Len(p)) = p

\* s.includes(sub)
includes(s, sub) ==
    \E i \in 1..(Len(s) - Len(sub) + 1) : SubSeq(s, i, i + Len(sub) - 1) = sub

\* s.substring(0, end)
substring(s, end) == SubSeq(s, 1, IF Len(s) < end THEN Len(s) ELSE end)

\* lines.join(separator)
RECURSIVE join(_, _)
join(lines, separator) ==
    IF lines = <<>> THEN <<>>
    ELSE IF Len(lines) = 1 THEN lines[1]
    ELSE lines[1] \o <<separator>> \o join(Tail(lines), separator)

Drop(s, n) == SubSeq(s, n + 1, Len(s))

\* The HTML parser's reading of a double-quoted attribute value: the value
\* ends at the first double quote; character references are decoded.
\* [closed |-> the source text had no double quote of its own, value |-> ...]
RECURSIVE attributeValue(_)
attributeValue(s) ==
    IF s = <<>> THEN [closed |-> TRUE, value |-> <<>>]
    ELSE IF Head(s) = "\"" THEN [closed |-> FALSE, value |-> <<>>]
    ELSE LET ref == CASE IsPrefix(<<"&", "a", "m", "p", ";">>, s) -> <<5, "&">>
                      [] IsPrefix(<<"&", "l", "t", ";">>, s) -> <<4, "<">>
                      [] IsPrefix(<<"&", "g", "t", ";">>, s) -> <<4, ">">>
                      [] OTHER -> <<1, Head(s)>>
             rest == attributeValue(Drop(s, ref[1]))
         IN  [closed |-> rest.closed, value |-> <<ref[2]>> \o rest.value]

\* element.textContent of an element whose innerHTML was set to markup
\* without tags: the character references are decoded
\* (a reference starts with & and holds no other &, so references do not
\* overlap: the text is the characters outside references, with every
\* reference replaced by its character)
textContent(html) ==
    LET ref(i) == LET rest == SubSeq(html, i, IF i + 4 < Len(html) THEN i + 4 ELSE Len(html))
                  IN  CASE html[i] # "&" -> <<1, html[i]>>
                        [] IsPrefix(<<"&", "a", "m", "p", ";">>, rest) -> <<5, "&">>
                        [] IsPrefix(<<"&", "l", "t", ";">>, rest) -> <<4, "<">>
                        [] IsPrefix(<<"&", "g", "t", ";">>, rest) -> <<4, ">">>
                        [] OTHER -> <<1, html[i]>>
        inside(i) == \E j \in (IF i > 4 THEN i - 4 ELSE 1)..(i - 1) : j + ref(j)[1] > i
        outside(i) == ~inside(i)
        starts == SelectSeq([i \in 1..Len(html) |-> i], outside)
    IN  [k \in 1..Len(starts) |-> ref(starts[k])[2]]

\* The JavaScript reading of the body of a single-quoted string literal that
\* is followed by ') : None for a syntax error (the handler does not run),
\* Some(string) otherwise.  An unescaped quote ends the literal early and
\* leaves text that is no expression; a trailing backslash escapes the
\* closing quote.  Escapes: \b is U+0008, \t a tab, \\ and \' the character,
\* any other character of the model's alphabet stands for itself.
RECURSIVE stringLiteral(_)
stringLiteral(s) ==
    IF s = <<>> THEN Some(<<>>)
    ELSE IF Head(s) = "'" THEN None
    ELSE IF Head(s) = "\\"
         THEN IF Len(s) = 1 THEN None
              ELSE LET c == s[2]
                       ch == CASE c = "b" -> "BS"
                               [] c = "t" -> "\t"
                               [] OTHER   -> c
                       rest == stringLiteral(Drop(s, 2))
                   IN  IF rest = None THEN None ELSE Some(<<ch>> \o rest[1])
    ELSE LET rest == stringLiteral(Tail(s))
         IN  IF rest = None THEN None ELSE Some(<<Head(s)>> \o rest[1])

\* createHistoryItem: the argument with which a click on the item's button
\* calls useHistoryQuery, from onclick="useHistoryQuery('${escapeHtml(item.query)}')"
\* (None: the attribute is no valid script and the click does nothing)
onclickArgument(query) ==
    LET attr == attributeValue(escapeHtml(query))
    IN  IF attr.closed THEN stringLiteral(attr.value) ELSE None

(***************************************************************************)
(* Values of a parsed JSON body                                            *)
(***************************************************************************)
\* a JavaScript number, in thousandths; NaN apart
Number(units, thousandths) == [nan |-> FALSE, milli |-> units * 1000 + thousandths]

NaN == [nan |-> TRUE, milli |-> 0]

JsonNumber(units, thousandths) == [type |-> "number", number |-> Number(units, thousandths)]

JsonNull == [type |-> "null"]

JsonString(chars) == [type |-> "string", chars |-> chars]

\* an array of strings
JsonArray(lines) == [type |-> "array", lines |-> lines]

\* an object, with the text JSON.stringify makes of it
JsonObject(json) == [type |-> "object", json |-> json]

\* the truth value of a JSON value that is present
truthy(v) ==
    CASE v.type = "string" -> v.chars # <<>>
      [] v.type = "number" -> ~v.number.nan /\ v.number.milli # 0
      [] v.type = "null"   -> FALSE
      [] OTHER             -> TRUE

Digits == <<"0", "1", "2", "3", "4", "5", "6", "7", "8", "9">>

\* the number a string of decimal digits spells, NaN for any other string
RECURSIVE digitsToNumber(_, _)
digitsToNumber(chars, units) ==
    IF chars = <<>> THEN Number(units, 0)
    ELSE IF \E d \in 1..Len(Digits) : Digits[d] = Head(chars)
         THEN digitsToNumber(Tail(chars),
                             units * Len(Digits)
                                 + (CHOOSE d \in 1..Len(Digits) : Digits[d] = Head(chars)) - 1)
         ELSE NaN

\* ToNumber, the conversion Math.min, Math.max and * apply to an operand:
\* null is 0, a string is the number it spells ('' is 0) or NaN
toNumber(v) ==
    CASE v.type = "number" -> v.number
      [] v.type = "null"   -> Number(0, 0)
      [] v.type = "string" -> digitsToNumber(trim(v.chars), 0)
      [] OTHER             -> NaN

\* Math.min(a, b) and Math.max(a, b): NaN if an operand is NaN
mathMin(a, b) == IF a.nan \/ b.nan THEN NaN ELSE IF a.milli < b.milli THEN a ELSE b

mathMax(a, b) == IF a.nan \/ b.nan THEN NaN ELSE IF a.milli > b.milli THEN a ELSE b

\* a * b, a / b, a - b
times(a, b) ==
    IF a.nan \/ b.nan THEN NaN ELSE [nan |-> FALSE, milli |-> (a.milli * b.milli) \div 1000]

dividedBy(a, b) ==
    IF a.nan \/ b.nan THEN NaN ELSE [nan |-> FALSE, milli |-> (a.milli * 1000) \div b.milli]

minus(a, b) == IF a.nan \/ b.nan THEN NaN ELSE [nan |-> FALSE, milli |-> a.milli - b.milli]

\* x.toFixed(1) of a number that is not negative: its tenths, rounded, or 'NaN'
toFixed1(x) == IF x.nan THEN [nan |-> TRUE, tenths |-> 0]
               ELSE [nan |-> FALSE, tenths |-> (x.milli + 50) \div 100]

(***************************************************************************)
(* Search responses                                                        *)
(***************************************************************************)
\* a candidate without lyrics and without score fields
Song(id, title) ==
    [id |-> id, title |-> title, lyrics |-> None, text |-> None, content |-> None,
     match_percent |-> None, hybrid_score |-> None, similarity_distance |-> None]

\* the parsed body of a response
Data(candidates, selected, warning, message, reasoning, error) ==
    [candidates |-> candidates, selected |-> selected, warning |-> warning,
     message |-> message, reasoning |-> reasoning, error |-> error]

SongA == Song(Some("1"), Some("Song A"))

SongB == Song(Some("2"), Some("Song B"))

\* a body with candidates and a selection
DataSelected == Data(Some(<<SongA, SongB>>), Some(SongA), None, None, Some("because"), None)

\* a body with candidates, no selection, and the overload warning
DataDegraded ==
    Data(Some(<<SongB>>), None, Some(TRUE), Some("models are overloaded"), None, None)

\* bodies without candidates
DataEmpty == Data(Some(<<>>), None, None, None, None, None)

DataNoField == Data(None, None, None, Some("nothing matched"), None, None)

\* bodies of failed requests: {error: ...}, {} and one that still lists candidates
DataError == Data(None, None, None, None, None, Some("overloaded"))

DataNoError == Data(None, None, None, None, None, None)

DataErrorCandidates == Data(Some(<<SongB>>), None, None, None, None, Some("overloaded"))

\* the fetch resolved with status `ok` and the body `data`
Response(ok, data) == [rejected |-> FALSE, ok |-> ok, data |-> data]

\* the fetch rejected: no response, error.message is the browser's
NetworkFailure == [rejected |-> TRUE, ok |-> FALSE, data |-> DataNoError]

AllOutcomes ==
    {Response(TRUE, d) : d \in {DataSelected, DataDegraded, DataEmpty, DataNoField}}
        \cup {Response(FALSE, d) : d \in {DataError, DataNoError, DataErrorCandidates}}
        \cup {NetworkFailure}

\* what the backend may answer to a query: anything to "a"; to the other
\* queries anything but the degraded body
Outcomes(query) ==
    IF query = <<"a">> THEN AllOutcomes
    ELSE AllOutcomes \ {Response(TRUE, DataDegraded)}

\* what the user may enter in the query field (it is empty at first)
InputValues == { <<" ">>, <<" ", "a", " ">>, <<"&", "\\", "b">> }

\* a value whose query ends in backslash, t: JavaScript reads these two
\* characters of a string literal as a tab
EscapeInputValues == { <<" ", "a", "\\", "t", " ">> }

\* the n-th query of a user who never repeats a query: "a" n times
RECURSIVE DeepQuery(_)
DeepQuery(n) == IF n <= 0 THEN <<>> ELSE <<"a">> \o DeepQuery(n - 1)

\* the backend's answer to DeepQuery(n): one candidate, selected, named after n
DeepData(query) ==
    LET s == Song(Some(ToString(Len(query))), Some(ToString(Len(query))))
    IN  Data(Some(<<s>>), Some(s), None, None, None, None)

DeepOutcomes(query) ==
    {Response(TRUE, DeepData(query)), Response(TRUE, DataEmpty), Response(FALSE, DataError)}

\* c, n times
Repeat(c, n) == [i \in 1..n |-> c]

\* lyrics of every length around the preview length, with and without an
\* ellipsis, a character escapeHtml rewrites, and white space at the ends
LyricsStrings ==
    { Repeat("a", n) \o tail :
        n \in {0, 1, 2, 146, 147, 148, 149, 150, 151},
        tail \in { <<>>, <<"a">>, <<".", ".", ".">>, <<"a", ".", ".", ".">>,
                   <<".", ".", ".", "a">>, <<"&">>, <<"<", "a">>, <<"a", " ">> } }

\* lyrics as a string, as an array of lines and as an object
LyricsValues ==
    {JsonString(string) : string \in LyricsStrings}
        \cup {JsonArray(<< <<"l", "a">>, <<"l", "a">> >>), JsonArray(<<>>),
              JsonArray(<< Repeat("a", 100), Repeat("a", 100) >>),
              JsonObject(<<"{", "}">>)}

\* the candidates of SpecLyrics: lyrics in song.lyrics, and one in song.text
LyricsSongs ==
    {[Song(Some("1"), Some("Song A")) EXCEPT !.lyrics = Some(v)] : v \in LyricsValues}
        \cup {[Song(Some("1"), Some("Song A")) EXCEPT !.text = Some(JsonString(<<"l", "a">>))]}

\* a body with one candidate, selected
LyricsData(song) == Data(Some(<<song>>), Some(song), None, None, None, None)

LyricsOutcomes == {Response(TRUE, LyricsData(song)) : song \in LyricsSongs}

\* the candidates of SpecCards: one with an id and lyrics, one with neither,
\* one with lyrics only
CardSongs ==
    << [Song(Some("1"), Some("Song A")) EXCEPT !.lyrics = Some(JsonString(<<"l", "a">>))],
       Song(None, Some("Song B")),
       [Song(None, Some("Song C")) EXCEPT !.text = Some(JsonArray(<< <<"l">>, <<"a">> >>))] >>

\* a body with the three candidates, the first selected
CardsData == Data(Some(CardSongs), Some(CardSongs[1]), None, None, None, None)

\* what the backend may answer in SpecCards
CardOutcomes ==
    {Response(TRUE, CardsData), Response(TRUE, DataDegraded), Response(TRUE, DataEmpty),
     Response(FALSE, DataError), NetworkFailure}

\* score fields: absent, numbers inside and outside their range, null and
\* a string that spells no number
MatchPercentValues ==
    {None, Some(JsonNumber(87, 300)), Some(JsonNumber(150, 0)), Some(JsonNumber(-5, 0)),
     Some(JsonNull), Some(JsonString(<<"a", "b", "c">>))}

HybridScoreValues ==
    {None, Some(JsonNumber(0, 873)), Some(JsonNumber(1, 500)), Some(JsonNull)}

SimilarityDistanceValues ==
    {None, Some(JsonNumber(0, 0)), Some(JsonNumber(0, 400)), Some(JsonNumber(0, 500)),
     Some(JsonNumber(2, 0)), Some(JsonNumber(3, 0)), Some(JsonString(<<"a", "b", "c">>))}

\* the candidates of SpecScores that carry score fields
ScoreSongs ==
    {[Song(Some("1"), Some("Song A")) EXCEPT !.match_percent = m, !.hybrid_score = h,
                                             !.similarity_distance = d] :
        m \in MatchPercentValues, h \in HybridScoreValues, d \in SimilarityDistanceValues}

\* identifiers of a song: absent or present
IdValues == {None, Some("1"), Some("2")}

\* bodies of SpecScores: one candidate with score fields and no selection, or
\* two candidates and a selection, each with or without an identifier
ScoreData ==
    {Data(Some(<<song>>), None, None, None, None, None) : song \in ScoreSongs}
        \cup {Data(Some(<<Song(id1, Some("Song A")), Song(id2, Some("Song B"))>>),
                   selected, None, None, None, None) :
                 id1 \in IdValues, id2 \in IdValues,
                 selected \in {None, Some(Song(None, Some("Song A"))),
                               Some(Song(Some("1"), Some("Song A")))}}

ScoreOutcomes == {Response(TRUE, data) : data \in ScoreData}

(***************************************************************************)
(* Program constants                                                       *)
(***************************************************************************)
\* history.slice(0, 10)
HistoryLimit == 10

\* lyrics.length > 150, lyrics.substring(0, 150), previewText.length > 150
PreviewLength == 150

(***************************************************************************)
(* Helpers of the page                                                     *)
(***************************************************************************)
\* the feedback gate of a result that was just displayed: nothing submitted,
\* no request sent
FeedbackOpen == [submitted |-> FALSE, sent |-> 0]

\* showStatus(message, type): the text, the class, and 'hidden' removed
showStatus(message, type) == [hidden |-> FALSE, type |-> type, text |-> message]

\* hideStatus(): adds the class 'hidden', keeps text and type
hideStatus(status) == [status EXCEPT !.hidden = TRUE]

\* song.lyrics || song.text || song.content || null
lyricsOf(song) ==
    IF song.lyrics # None /\ truthy(song.lyrics[1]) THEN song.lyrics
    ELSE IF song.text # None /\ truthy(song.text[1]) THEN song.text
    ELSE IF song.content # None /\ truthy(song.content[1]) THEN song.content
    ELSE None

\* createCandidateCard: the lyrics as a trimmed string; an array is joined
\* with line feeds, an object is serialized
lyricsString(lyrics) ==
    trim(CASE lyrics.type = "array"  -> join(lyrics.lines, "\n")
           [] lyrics.type = "object" -> lyrics.json
           [] OTHER                  -> lyrics.chars)

\* Math.max(0, Math.min(100, x))
clampPercent(x) == mathMax(Number(0, 0), mathMin(Number(100, 0), x))

\* the similarity shown for song.match_percent
matchPercentSimilarity(v) == clampPercent(toNumber(v))

\* the similarity shown for song.hybrid_score
hybridSimilarity(v) == clampPercent(times(toNumber(v), Number(100, 0)))

\* mutant of distanceSimilarity: the capped distance is not halved
distanceSimilarityNotHalved(v) ==
    clampPercent(times(minus(Number(1, 0), mathMin(toNumber(v), Number(2, 0))),
                       Number(100, 0)))

\* the similarity shown for song.similarity_distance:
\* (1 - Math.min(d, 2) / 2) * 100, clamped
distanceSimilarity(v) ==
    clampPercent(times(minus(Number(1, 0),
                             dividedBy(mathMin(toNumber(v), Number(2, 0)), Number(2, 0))),
                       Number(100, 0)))

\* mutant of similarity: the distance is looked at before the hybrid score
similarityDistanceFirst(song) ==
    IF song.match_percent # None THEN Some(matchPercentSimilarity(song.match_percent[1]))
    ELSE IF song.similarity_distance # None
         THEN Some(distanceSimilarity(song.similarity_distance[1]))
    ELSE IF song.hybrid_score # None THEN Some(hybridSimilarity(song.hybrid_score[1]))
    ELSE None

\* createCandidateCard: the similarity of the card's bar, from the first of
\* match_percent, hybrid_score, similarity_distance that is !== undefined;
\* None: the card has no similarity container
similarity(song) ==
    IF song.match_percent # None THEN Some(matchPercentSimilarity(song.match_percent[1]))
    ELSE IF song.hybrid_score # None THEN Some(hybridSimilarity(song.hybrid_score[1]))
    ELSE IF song.similarity_distance # None
         THEN Some(distanceSimilarity(song.similarity_distance[1]))
    ELSE None

\* createCandidateCard: the class 'selected' of the card,
\* selectedSong && song.id === selectedSong.id
isSelected(song, selected) == selected # None /\ song.id = selected[1].id

\* createCandidateCard: the card of one candidate.  lyricsPreview and
\* lyricsFull are the elements .lyrics-preview and .lyrics-full with their
\* textContent and style.display, toggleBtn is the label of the toggle
\* button, similarityLabel the percentage as printed
createCandidateCard(song, index, selected) ==
    LET lyrics == lyricsOf(song)
        string == lyricsString(lyrics[1])
        hasFullLyrics == Len(string) > PreviewLength
        bar == similarity(song)
    IN  [index |-> index, song |-> song,
         selected |-> isSelected(song, selected),
         similarity |-> bar,
         similarityLabel |-> IF bar = None THEN None ELSE Some(toFixed1(bar[1])),
         lyricsPreview |->
            IF lyrics = None THEN [text |-> <<"Lyrics are not available">>, display |-> ""]
            ELSE IF hasFullLyrics
                 THEN [text |-> textContent(escapeHtml(substring(string, PreviewLength))
                                                \o <<".", ".", ".">>),
                       display |-> ""]
            ELSE [text |-> textContent(escapeHtml(string)), display |-> ""],
         lyricsFull |->
            IF lyrics = None THEN None
            ELSE Some([text |-> textContent(escapeHtml(string)), display |-> "none"]),
         toggleBtn |->
            IF lyrics = None THEN None
            ELSE IF hasFullLyrics THEN Some("Show full text")
            ELSE Some("Show text")]

\* toggleLyrics(button), for the card of the button
toggleLyrics(card) ==
    IF card.lyricsFull = None THEN card
    ELSE LET isCurrentlyHidden == card.lyricsFull[1].display \in {"none", ""}
             previewText == card.lyricsPreview.text
             isLong == Len(previewText) > PreviewLength
                           \/ includes(previewText, <<".", ".", ".">>)
         IN  IF isCurrentlyHidden
             THEN [card EXCEPT !.lyricsFull = Some([@[1] EXCEPT !.display = "block"]),
                               !.lyricsPreview.display = "none",
                               !.toggleBtn = Some("Hide text")]
             ELSE [card EXCEPT !.lyricsFull = Some([@[1] EXCEPT !.display = "none"]),
                               !.lyricsPreview.display = "block",
                               !.toggleBtn = IF isLong THEN Some("Show full text")
                                             ELSE Some("Show text")]

\* mutant of displayCandidates: a card that replaces an expanded card is expanded
displayCandidatesKeepExpanded(data) ==
    LET candidates == data.candidates[1]
    IN  [i \in 1..Len(candidates) |->
            LET card == createCandidateCard(candidates[i], i, data.selected)
            IN  IF /\ i <= Len(candidatesList)
                   /\ candidatesList[i].lyricsFull # None
                   /\ candidatesList[i].lyricsFull[1].display = "block"
                THEN toggleLyrics(card)
                ELSE card]

\* displayResults: the cards, in the order of data.candidates
displayCandidates(data) ==
    LET candidates == data.candidates[1]
    IN  [i \in 1..Len(candidates) |-> createCandidateCard(candidates[i], i, data.selected)]

\* displayResults: the selection panel, or the 'automatic choice unavailable' placeholder
displaySelected(data) ==
    IF data.selected # None
    THEN [unavailable |-> FALSE, song |-> data.selected]
    ELSE [unavailable |-> TRUE, song |-> None]

\* displayResults: the reasoning section (its text is only written when there is one)
displayReasoning(data, section) ==
    IF data.reasoning # None
    THEN [hidden |-> FALSE, text |-> data.reasoning]
    ELSE [section EXCEPT !.hidden = TRUE]

\* a stored item that is no JSON text
InvalidItem == [kind |-> "invalid", value |-> <<>>]

\* JSON.parse(localStorage.getItem('searchHistory') || '[]') throws a SyntaxError
parseThrows(item) == item.kind = "invalid"

\* JSON.parse(localStorage.getItem('searchHistory') || '[]'), when it returns
parseHistory(item) == IF item.kind = "null" THEN <<>> ELSE item.value

\* localStorage.setItem('searchHistory', JSON.stringify(history))
setItem(history) == [kind |-> "json", value |-> history]

\* localStorage.removeItem('searchHistory')
removeItem == [kind |-> "null", value |-> <<>>]

\* result.selected?.title || null
selectedTitle(result) ==
    IF result.selected # None /\ result.selected[1].title # None
       /\ result.selected[1].title[1] # ""
    THEN result.selected[1].title
    ELSE None

\* the entry saveSearchHistory puts in front
historyEntry(query, result, timestamp) ==
    [query |-> query, timestamp |-> timestamp,
     selectedTitle |-> selectedTitle(result), cachedResult |-> result]

\* mutant of limitHistory: history.slice(0, 11)
limitHistoryOffByOne(history) ==
    SubSeq(history, 1, IF Len(history) < HistoryLimit + 1 THEN Len(history)
                                                          ELSE HistoryLimit + 1)

\* history.slice(0, 10)
limitHistory(history) ==
    SubSeq(history, 1, IF Len(history) < HistoryLimit THEN Len(history) ELSE HistoryLimit)

\* mutant of saveSearchHistory: the older entries of the query are dropped
saveSearchHistoryDedupe(item, query, result, timestamp) ==
    LET Other(e) == e.query # query
    IN  setItem(limitHistory(<<historyEntry(query, result, timestamp)>>
                                 \o SelectSeq(parseHistory(item), Other)))

\* mutant of saveSearchHistory: history.push(...) instead of history.unshift(...)
saveSearchHistoryPush(item, query, result, timestamp) ==
    setItem(limitHistory(parseHistory(item) \o <<historyEntry(query, result, timestamp)>>))

\* saveSearchHistory(query, result): the new value of the stored item
saveSearchHistory(item, query, result, timestamp) ==
    setItem(limitHistory(<<historyEntry(query, result, timestamp)>> \o parseHistory(item)))

\* createHistoryItem(item): the query and time shown, and what its button does
createHistoryItem(item) ==
    [query |-> item.query, timestamp |-> item.timestamp,
     onclick |-> onclickArgument(item.query)]

\* updateSearchHistory(): the rendered list, one item per stored entry, in order
updateSearchHistory(item) ==
    LET history == parseHistory(item)
    IN  [i \in 1..Len(history) |-> createHistoryItem(history[i])]

\* mutant of findCachedEntry: item.query.startsWith(query) instead of ===
RECURSIVE findCachedEntryPrefix(_, _)
findCachedEntryPrefix(history, query) ==
    IF history = <<>> THEN None
    ELSE IF IsPrefix(query, Head(history).query) THEN Some(Head(history))
    ELSE findCachedEntryPrefix(Tail(history), query)

\* mutant of findCachedEntry: the cache is never hit
findCachedEntryNever(history, query) == None

\* history.find(item => item.query === query && item.cachedResult)
RECURSIVE findCachedEntry(_, _)
findCachedEntry(history, query) ==
    IF history = <<>> THEN None
    ELSE IF Head(history).query = query THEN Some(Head(history))
    ELSE findCachedEntry(Tail(history), query)

RemoveAt(s, i) == SubSeq(s, 1, i - 1) \o SubSeq(s, i + 1, Len(s))

(***************************************************************************)
(* Initial state: the script has run, the page shows nothing, the store    *)
(* is empty and the load handler waits for /api/health.                    *)
(***************************************************************************)
InitWith(item) ==
    /\ queryInputValue = <<>>
    /\ queryInputDisabled = FALSE
    /\ searchBtnDisabled = FALSE
    /\ statusMessage = [hidden |-> TRUE, type |-> "", text |-> <<>>]
    /\ resultsSectionHidden = TRUE
    /\ candidatesList = <<>>
    /\ selectedSong = [unavailable |-> FALSE, song |-> None]
    /\ reasoningSection = [hidden |-> TRUE, text |-> None]
    /\ historySidebarActive = FALSE
    /\ confirmModalActive = FALSE
    /\ bodyOverflow = ""
    /\ confirmCallback = None
    /\ currentSearchResult = None
    /\ localStorage = item
    /\ historyList = <<>>
    /\ pendingSearches = <<>>
    /\ healthPending = TRUE
    /\ now = 0
    /\ insertLog = <<>>
    /\ feedbackGate = FeedbackOpen

\* the store is empty
Init == InitWith(removeItem)

\* the store holds an item that is no JSON text (of another script of the
\* origin, or damaged)
InitCorrupt == InitWith(InvalidItem)

(***************************************************************************)
(* The search                                                              *)
(***************************************************************************)
\* searchSongs(query) up to its await: setLoading(true), hideStatus(),
\* hideResults(), and the request is on its way.  The guard keeps the number
\* of history entries written in one behaviour within maxSaves.
searchSongs(query, maxSaves) ==
    /\ now + Len(pendingSearches) < maxSaves
    /\ searchBtnDisabled' = TRUE
    /\ queryInputDisabled' = TRUE
    /\ statusMessage' = hideStatus(statusMessage)
    /\ resultsSectionHidden' = TRUE
    /\ pendingSearches' = Append(pendingSearches, query)
    /\ feedbackGate' = FeedbackOpen

\* the submit handler of searchForm, with `value` in the query field
searchFormSubmit(value, maxSaves) ==
    /\ ~searchBtnDisabled
    /\ ~queryInputDisabled
    /\ queryInputValue' = value
    /\ LET query == trim(value)
       IN  IF query = <<>>
           THEN /\ statusMessage' = showStatus(<<"Query must not be empty">>, "error")
                /\ UNCHANGED <<searchBtnDisabled, queryInputDisabled,
                               resultsSectionHidden, pendingSearches, feedbackGate>>
           ELSE searchSongs(query, maxSaves)
    /\ UNCHANGED <<candidatesList, selectedSong, reasoningSection, historySidebarActive,
                   confirmModalActive, bodyOverflow, confirmCallback, currentSearchResult,
                   localStorage, historyList, healthPending, now, insertLog>>

\* the status searchSongs shows for a response with candidates
successStatus(data) ==
    IF data.warning = Some(TRUE)
    THEN showStatus(<<OrElse(data.message, "Models are temporarily overloaded")>>, "warning")
    ELSE showStatus(<<"Search completed successfully!">>, "success")

\* the status searchSongs shows for a 2xx response without candidates
emptyStatus(data) ==
    showStatus(<<OrElse(data.message, "No matching songs found")>>, "info")

\* the status of the catch block: `Error: ${error.message}`, where the
\* message is data.error || 'Search failed', or the rejection's own
errorStatus(outcome) ==
    showStatus(<<"Error: ", IF outcome.rejected THEN "Failed to fetch"
                            ELSE OrElse(outcome.data.error, "Search failed")>>, "error")

\* the status of the catch block for the SyntaxError of JSON.parse
parseErrorStatus == showStatus(<<"Error: ", "Unexpected token">>, "error")

\* mutant of finallyLoading: setLoading(false) at the end of the try block
loadingUnlessThrown(thrown) == thrown

\* finally { setLoading(false) }: the argument of setLoading when the call
\* ends, whether or not the try block has thrown
finallyLoading(thrown) == FALSE

\* mutant of hasCandidates: a response without a selected item counts as empty
hasCandidatesAndSelected(data) ==
    data.candidates # None /\ Len(data.candidates[1]) > 0 /\ data.selected # None

\* mutant of hasCandidates: the length is not looked at
hasCandidatesAnyLength(data) == data.candidates # None

\* data.candidates && data.candidates.length > 0
hasCandidates(data) == data.candidates # None /\ Len(data.candidates[1]) > 0

\* mutant of responseKind: response.ok is not looked at
responseKindStatusIgnored(outcome) ==
    IF outcome.rejected THEN "error"
    ELSE IF hasCandidates(outcome.data) THEN "success"
    ELSE "empty"

\* the path searchSongs takes after its await: the catch block for a rejected
\* fetch and for !response.ok, else by the candidates of the body
responseKind(outcome) ==
    IF outcome.rejected \/ ~outcome.ok THEN "error"
    ELSE IF hasCandidates(outcome.data) THEN "success"
    ELSE "empty"

\* searchSongs from its await on, for the i-th outstanding request and the
\* outcome of its fetch; setLoading(false) in every case.  When the stored
\* item does not parse, saveSearchHistory throws after displayResults and
\* the catch block shows the error.
searchSongsResume(i, outcome) ==
    /\ i \in 1..Len(pendingSearches)
    /\ LET query == pendingSearches[i]
           data == outcome.data
           saved == saveSearchHistory(localStorage, query, data, now + 1)
       IN  IF responseKind(outcome) = "success" /\ parseThrows(localStorage)
           THEN /\ candidatesList' = displayCandidates(data)
                /\ selectedSong' = displaySelected(data)
                /\ reasoningSection' = displayReasoning(data, reasoningSection)
                /\ resultsSectionHidden' = FALSE
                /\ statusMessage' = parseErrorStatus
                /\ feedbackGate' = FeedbackOpen
                /\ UNCHANGED <<now, localStorage, historyList, currentSearchResult,
                               insertLog>>
           ELSE IF responseKind(outcome) = "success"
           THEN /\ candidatesList' = displayCandidates(data)
                /\ selectedSong' = displaySelected(data)
                /\ reasoningSection' = displayReasoning(data, reasoningSection)
                /\ resultsSectionHidden' = FALSE
                /\ now' = now + 1
                /\ localStorage' = saved
                /\ historyList' = updateSearchHistory(saved)
                /\ currentSearchResult' = Some([query |-> query, selected |-> data.selected])
                /\ statusMessage' = successStatus(data)
                /\ insertLog' = <<historyEntry(query, data, now + 1)>> \o insertLog
                /\ feedbackGate' = FeedbackOpen
           ELSE /\ statusMessage' = IF responseKind(outcome) = "empty"
                                    THEN emptyStatus(data)
                                    ELSE errorStatus(outcome)
                /\ UNCHANGED <<candidatesList, selectedSong, reasoningSection,
                               resultsSectionHidden, now, localStorage, historyList,
                               currentSearchResult, insertLog, feedbackGate>>
    /\ pendingSearches' = RemoveAt(pendingSearches, i)
    /\ LET thrown == \/ responseKind(outcome) = "error"
                     \/ responseKind(outcome) = "success" /\ parseThrows(localStorage)
       IN  /\ searchBtnDisabled' = finallyLoading(thrown)
           /\ queryInputDisabled' = finallyLoading(thrown)
    /\ UNCHANGED <<queryInputValue, historySidebarActive, confirmModalActive,
                   bodyOverflow, confirmCallback, healthPending>>

(***************************************************************************)
(* The candidate cards                                                     *)
(***************************************************************************)
\* the elements of a card a click can land on
ClickTargets == {"toggle-lyrics-btn", "open-in-app-btn", "candidate-card"}

\* the target is in the card: the button with lyrics, the link with song.id
hasTarget(card, target) ==
    CASE target = "toggle-lyrics-btn" -> card.toggleBtn # None
      [] target = "open-in-app-btn"   -> card.song.id # None
      [] OTHER                        -> TRUE

\* the onclick attribute of the clicked element: toggleLyrics(this) on the button
targetOnclick(card, target) ==
    IF target = "toggle-lyrics-btn" THEN toggleLyrics(card) ELSE card

\* mutant of cardListener: the listener does not look at the target
cardListenerAnyTarget(card, target) ==
    IF card.lyricsFull = None THEN card ELSE toggleLyrics(card)

\* the click listener of the card, added when the song has lyrics: returns
\* for a click on the button or on the link, else toggles through the button
cardListener(card, target) ==
    IF card.lyricsFull = None THEN card
    ELSE IF target \in {"toggle-lyrics-btn", "open-in-app-btn"} THEN card
    ELSE toggleLyrics(card)

\* a click in a card: the handler of the target, then the listener of the card
cardClick(card, target) == cardListener(targetOnclick(card, target), target)

\* click on the toggle button of the i-th card: toggleLyrics(this); the
\* card's own click listener ignores a click on the button
toggleLyricsBtnClick(i) ==
    /\ ~resultsSectionHidden
    /\ i \in 1..Len(candidatesList)
    /\ hasTarget(candidatesList[i], "toggle-lyrics-btn")
    /\ candidatesList' = [candidatesList EXCEPT ![i] = cardClick(@, "toggle-lyrics-btn")]
    /\ UNCHANGED <<queryInputValue, queryInputDisabled, searchBtnDisabled, statusMessage,
                   resultsSectionHidden, selectedSong, reasoningSection,
                   historySidebarActive, confirmModalActive, bodyOverflow, confirmCallback,
                   currentSearchResult, localStorage, historyList, pendingSearches,
                   healthPending, now, insertLog, feedbackGate>>

\* click on a candidate card outside its button: on the card itself or on
\* the open-in-app link (which opens the song in another tab)
candidateCardClick(i, target) ==
    /\ ~resultsSectionHidden
    /\ i \in 1..Len(candidatesList)
    /\ target \in ClickTargets \ {"toggle-lyrics-btn"}
    /\ hasTarget(candidatesList[i], target)
    /\ candidatesList' = [candidatesList EXCEPT ![i] = cardClick(@, target)]
    /\ UNCHANGED <<queryInputValue, queryInputDisabled, searchBtnDisabled, statusMessage,
                   resultsSectionHidden, selectedSong, reasoningSection,
                   historySidebarActive, confirmModalActive, bodyOverflow, confirmCallback,
                   currentSearchResult, localStorage, historyList, pendingSearches,
                   healthPending, now, insertLog, feedbackGate>>

(***************************************************************************)
(* Feedback on the selection (the like and dislike controls)               *)
(***************************************************************************)
FeedbackOutcomes == {"like", "dislike"}

\* mutant of submitFeedback: the gate is not looked at
submitFeedbackUngated(gate) == [submitted |-> TRUE, sent |-> gate.sent + 1]

\* submit(outcome) on a result with a selection: one POST /feedback through
\* the open gate, which closes; nothing through the closed gate
submitFeedback(gate) ==
    IF gate.submitted THEN gate ELSE [submitted |-> TRUE, sent |-> gate.sent + 1]

\* click on the like or the dislike control of the displayed result:
\* submit(outcome), which fails with NoSelection when nothing is selected
feedbackBtnClick(outcome) ==
    /\ ~resultsSectionHidden
    /\ IF currentSearchResult = None \/ currentSearchResult[1].selected = None
       THEN /\ statusMessage' = showStatus(<<"No song is selected">>, "error")
            /\ UNCHANGED feedbackGate
       ELSE /\ feedbackGate' = submitFeedback(feedbackGate)
            /\ UNCHANGED statusMessage
    /\ UNCHANGED <<queryInputValue, queryInputDisabled, searchBtnDisabled,
                   resultsSectionHidden, candidatesList, selectedSong, reasoningSection,
                   historySidebarActive, confirmModalActive, bodyOverflow, confirmCallback,
                   currentSearchResult, localStorage, historyList, pendingSearches,
                   healthPending, now, insertLog>>

(***************************************************************************)
(* The history sidebar                                                     *)
(***************************************************************************)
\* click on historyMenuBtn: openHistorySidebar()
historyMenuBtnClick ==
    /\ historySidebarActive' = TRUE
    /\ bodyOverflow' = "hidden"
    /\ UNCHANGED <<queryInputValue, queryInputDisabled, searchBtnDisabled, statusMessage,
                   resultsSectionHidden, candidatesList, selectedSong, reasoningSection,
                   confirmModalActive, confirmCallback, currentSearchResult, localStorage,
                   historyList, pendingSearches, healthPending, now, insertLog, feedbackGate>>

\* closeHistorySidebar()
closeHistorySidebar ==
    /\ historySidebarActive' = FALSE
    /\ bodyOverflow' = ""

\* click on closeHistoryBtn, shown in the open sidebar
closeHistoryBtnClick ==
    /\ historySidebarActive
    /\ closeHistorySidebar
    /\ UNCHANGED <<queryInputValue, queryInputDisabled, searchBtnDisabled, statusMessage,
                   resultsSectionHidden, candidatesList, selectedSong, reasoningSection,
                   confirmModalActive, confirmCallback, currentSearchResult, localStorage,
                   historyList, pendingSearches, healthPending, now, insertLog, feedbackGate>>

\* click on sidebarOverlay, shown with the open sidebar
sidebarOverlayClick ==
    /\ historySidebarActive
    /\ closeHistorySidebar
    /\ UNCHANGED <<queryInputValue, queryInputDisabled, searchBtnDisabled, statusMessage,
                   resultsSectionHidden, candidatesList, selectedSong, reasoningSection,
                   confirmModalActive, confirmCallback, currentSearchResult, localStorage,
                   historyList, pendingSearches, healthPending, now, insertLog, feedbackGate>>

\* click on the button of the i-th history item, shown in the open sidebar:
\* useHistoryQuery(query) with the argument its onclick attribute spells;
\* the call ends at JSON.parse when the stored item does not parse
useHistoryQuery(i, maxSaves) ==
    /\ historySidebarActive
    /\ i \in 1..Len(historyList)
    /\ historyList[i].onclick # None
    /\ LET query == historyList[i].onclick[1]
           cachedEntry == findCachedEntry(parseHistory(localStorage), query)
       IN  /\ queryInputValue' = query
           /\ closeHistorySidebar
           /\ IF parseThrows(localStorage)
              THEN UNCHANGED <<candidatesList, selectedSong, reasoningSection,
                               statusMessage, resultsSectionHidden, currentSearchResult,
                               searchBtnDisabled, queryInputDisabled, pendingSearches,
                               feedbackGate>>
              ELSE IF cachedEntry # None
              THEN LET data == cachedEntry[1].cachedResult
                   IN  /\ candidatesList' = displayCandidates(data)
                       /\ selectedSong' = displaySelected(data)
                       /\ reasoningSection' = displayReasoning(data, reasoningSection)
                       /\ statusMessage' = showStatus(<<"Results loaded from cache">>, "success")
                       /\ resultsSectionHidden' = FALSE
                       /\ currentSearchResult' = Some([query |-> query, selected |-> data.selected])
                       /\ feedbackGate' = FeedbackOpen
                       /\ UNCHANGED <<searchBtnDisabled, queryInputDisabled, pendingSearches>>
              ELSE /\ searchSongs(query, maxSaves)
                   /\ UNCHANGED <<candidatesList, selectedSong, reasoningSection,
                                  currentSearchResult>>
    /\ UNCHANGED <<confirmModalActive, confirmCallback, localStorage, historyList,
                   healthPending, now, insertLog>>

(***************************************************************************)
(* The confirmation modal                                                  *)
(***************************************************************************)
\* mutant of showConfirmModal: the action is not stored
showConfirmModalNoCallback(onConfirm) ==
    /\ confirmCallback' = confirmCallback
    /\ confirmModalActive' = TRUE
    /\ bodyOverflow' = "hidden"

\* showConfirmModal(title, message, onConfirm)
showConfirmModal(onConfirm) ==
    /\ confirmCallback' = Some(onConfirm)
    /\ confirmModalActive' = TRUE
    /\ bodyOverflow' = "hidden"

\* mutant of closeConfirmModal: confirmCallback is not reset
closeConfirmModalKeepsCallback ==
    /\ confirmModalActive' = FALSE
    /\ bodyOverflow' = ""
    /\ confirmCallback' = confirmCallback

\* closeConfirmModal()
closeConfirmModal ==
    /\ confirmModalActive' = FALSE
    /\ bodyOverflow' = ""
    /\ confirmCallback' = None

\* mutant of clearHistoryBtnClick: the history is removed without confirmation
clearHistoryBtnClickUnconfirmed ==
    /\ historySidebarActive
    /\ localStorage' = removeItem
    /\ historyList' = updateSearchHistory(localStorage')
    /\ insertLog' = <<>>
    /\ UNCHANGED <<queryInputValue, queryInputDisabled, searchBtnDisabled, statusMessage,
                   resultsSectionHidden, candidatesList, selectedSong, reasoningSection,
                   historySidebarActive, currentSearchResult, confirmModalActive,
                   confirmCallback, bodyOverflow,
                   pendingSearches, healthPending, now, feedbackGate>>

\* click on clearHistoryBtn, shown in the open sidebar: asks for confirmation
clearHistoryBtnClick ==
    /\ historySidebarActive
    /\ showConfirmModal("clearHistory")
    /\ UNCHANGED <<queryInputValue, queryInputDisabled, searchBtnDisabled, statusMessage,
                   resultsSectionHidden, candidatesList, selectedSong, reasoningSection,
                   historySidebarActive, currentSearchResult, localStorage, historyList,
                   pendingSearches, healthPending, now, insertLog, feedbackGate>>

\* click on confirmModalCancel, shown in the open modal
confirmModalCancelClick ==
    /\ confirmModalActive
    /\ closeConfirmModal
    /\ UNCHANGED <<queryInputValue, queryInputDisabled, searchBtnDisabled, statusMessage,
                   resultsSectionHidden, candidatesList, selectedSong, reasoningSection,
                   historySidebarActive, currentSearchResult, localStorage, historyList,
                   pendingSearches, healthPending, now, insertLog, feedbackGate>>

\* click on confirmModalOverlay, shown with the open modal
confirmModalOverlayClick ==
    /\ confirmModalActive
    /\ closeConfirmModal
    /\ UNCHANGED <<queryInputValue, queryInputDisabled, searchBtnDisabled, statusMessage,
                   resultsSectionHidden, candidatesList, selectedSong, reasoningSection,
                   historySidebarActive, currentSearchResult, localStorage, historyList,
                   pendingSearches, healthPending, now, insertLog, feedbackGate>>

\* mutant of confirmedStorage: the item is not removed
confirmedStorageKept(callback, item) == item

\* the stored item after the confirm action of clearHistoryBtn
\* (localStorage.removeItem('searchHistory')), or as it was without one
confirmedStorage(callback, item) ==
    IF callback = Some("clearHistory") THEN removeItem ELSE item

\* click on confirmModalConfirm: runs the stored action, if there is one
\* (remove the item, updateSearchHistory(), closeConfirmModal()), and closes
\* the modal.  The handler has no guard of its own but confirmCallback, and
\* the second click of a double click reaches it after the first has closed
\* the modal, so the click is possible in every state.
confirmModalConfirmClick ==
    /\ localStorage' = confirmedStorage(confirmCallback, localStorage)
    /\ historyList' = IF confirmCallback # None
                         THEN updateSearchHistory(localStorage')
                         ELSE historyList
    /\ insertLog' = IF confirmCallback # None THEN <<>> ELSE insertLog
    /\ closeConfirmModal
    /\ UNCHANGED <<queryInputValue, queryInputDisabled, searchBtnDisabled, statusMessage,
                   resultsSectionHidden, candidatesList, selectedSong, reasoningSection,
                   historySidebarActive, currentSearchResult, pendingSearches,
                   healthPending, now, feedbackGate>>

(***************************************************************************)
(* Page load                                                               *)
(***************************************************************************)
HealthOutcomes == {"ok", "not ok", "failed"}

\* the load handler from its await on: an error status unless the health
\* check said 'ok' (a failed request is only logged), then
\* updateSearchHistory(), which leaves the list alone when JSON.parse throws
windowLoadResume(health) ==
    /\ healthPending
    /\ healthPending' = FALSE
    /\ statusMessage' = IF health = "not ok"
                           THEN showStatus(<<"System is not ready">>, "error")
                           ELSE statusMessage
    /\ historyList' = IF parseThrows(localStorage) THEN historyList
                       ELSE updateSearchHistory(localStorage)
    /\ UNCHANGED <<queryInputValue, queryInputDisabled, searchBtnDisabled,
                   resultsSectionHidden, candidatesList, selectedSong, reasoningSection,
                   historySidebarActive, confirmModalActive, bodyOverflow, confirmCallback,
                   currentSearchResult, localStorage, pendingSearches, now, insertLog, feedbackGate>>

(***************************************************************************)
(* Specifications                                                          *)
(***************************************************************************)
\* every event, with the queries and responses of InputValues and Outcomes;
\* the form is submitted with a value entered or with the one it holds
Next ==
    \/ \E value \in InputValues \cup {queryInputValue} : searchFormSubmit(value, MaxSaves)
    \/ \E i \in 1..Len(pendingSearches) :
          \E outcome \in Outcomes(pendingSearches[i]) : searchSongsResume(i, outcome)
    \/ historyMenuBtnClick
    \/ closeHistoryBtnClick
    \/ sidebarOverlayClick
    \/ \E i \in 1..Len(historyList) : useHistoryQuery(i, MaxSaves)
    \/ clearHistoryBtnClick
    \/ confirmModalCancelClick
    \/ confirmModalOverlayClick
    \/ confirmModalConfirmClick
    \/ \E health \in HealthOutcomes : windowLoadResume(health)

Spec == Init /\ [][Next]_vars

\* every event, for a user who enters a new query each time: the query of the
\* (n+1)-th history entry is DeepQuery(n+1), long enough to fill the history
NextDeep ==
    \/ searchFormSubmit(DeepQuery(now + 1), MaxSavesDeep)
    \/ \E i \in 1..Len(pendingSearches) :
          \E outcome \in DeepOutcomes(pendingSearches[i]) : searchSongsResume(i, outcome)
    \/ historyMenuBtnClick
    \/ closeHistoryBtnClick
    \/ sidebarOverlayClick
    \/ \E i \in 1..Len(historyList) : useHistoryQuery(i, MaxSavesDeep)
    \/ clearHistoryBtnClick
    \/ confirmModalCancelClick
    \/ confirmModalOverlayClick
    \/ confirmModalConfirmClick
    \/ \E health \in HealthOutcomes : windowLoadResume(health)

SpecDeep == Init /\ [][NextDeep]_vars

\* every event, from a store that holds an item that is no JSON text
SpecCorrupt == InitCorrupt /\ [][Next]_vars

\* a response or a rejection arrives for an outstanding request
searchSettles ==
    \E i \in 1..Len(pendingSearches) :
        \E outcome \in Outcomes(pendingSearches[i]) : searchSongsResume(i, outcome)

\* every event, from either store
NextLive ==
    \/ \E value \in InputValues \cup {queryInputValue} : searchFormSubmit(value, MaxSavesLive)
    \/ searchSettles
    \/ historyMenuBtnClick
    \/ closeHistoryBtnClick
    \/ sidebarOverlayClick
    \/ \E i \in 1..Len(historyList) : useHistoryQuery(i, MaxSavesLive)
    \/ clearHistoryBtnClick
    \/ confirmModalCancelClick
    \/ confirmModalOverlayClick
    \/ confirmModalConfirmClick
    \/ \E health \in HealthOutcomes : windowLoadResume(health)

\* every request is answered or fails in the end
SpecLive == (Init \/ InitCorrupt) /\ [][NextLive]_vars /\ WF_vars(searchSettles)

\* searches that return one candidate with lyrics, and the toggle buttons
NextLyrics ==
    \/ searchFormSubmit(<<"a">>, MaxSavesLyrics)
    \/ \E i \in 1..Len(pendingSearches) :
          \E outcome \in LyricsOutcomes : searchSongsResume(i, outcome)
    \/ \E i \in 1..Len(candidatesList) : toggleLyricsBtnClick(i)

SpecLyrics == Init /\ [][NextLyrics]_vars

\* the whole page with candidates that have lyrics: searches, replays, the
\* sidebar, the modal and clicks in the cards
NextCards ==
    \/ \E value \in { <<" ">>, <<"a">> } : searchFormSubmit(value, MaxSavesCards)
    \/ \E i \in 1..Len(pendingSearches) :
          \E outcome \in CardOutcomes : searchSongsResume(i, outcome)
    \/ \E i \in 1..Len(candidatesList) : toggleLyricsBtnClick(i)
    \/ \E i \in 1..Len(candidatesList) :
          \E target \in ClickTargets : candidateCardClick(i, target)
    \/ historyMenuBtnClick
    \/ closeHistoryBtnClick
    \/ sidebarOverlayClick
    \/ \E i \in 1..Len(historyList) : useHistoryQuery(i, MaxSavesCards)
    \/ clearHistoryBtnClick
    \/ confirmModalCancelClick
    \/ confirmModalOverlayClick
    \/ confirmModalConfirmClick

SpecCards == Init /\ [][NextCards]_vars

\* searches that return candidates with and without score fields and identifiers
NextScores ==
    \/ searchFormSubmit(<<"a">>, MaxSavesScores)
    \/ \E i \in 1..Len(pendingSearches) :
          \E outcome \in ScoreOutcomes : searchSongsResume(i, outcome)

SpecScores == Init /\ [][NextScores]_vars

\* searches and replays of a user who enters a query with a backslash escape
NextEscape ==
    \/ \E value \in EscapeInputValues : searchFormSubmit(value, MaxSavesEscape)
    \/ \E i \in 1..Len(pendingSearches) :
          \E outcome \in Outcomes(pendingSearches[i]) : searchSongsResume(i, outcome)
    \/ historyMenuBtnClick
    \/ closeHistoryBtnClick
    \/ \E i \in 1..Len(historyList) : useHistoryQuery(i, MaxSavesEscape)

SpecEscape == Init /\ [][NextEscape]_vars

\* searches, replays and clicks on the feedback controls
NextFeedback ==
    \/ searchFormSubmit(<<" ", "a", " ">>, MaxSavesFeedback)
    \/ \E i \in 1..Len(pendingSearches) :
          \E outcome \in Outcomes(pendingSearches[i]) : searchSongsResume(i, outcome)
    \/ historyMenuBtnClick
    \/ \E i \in 1..Len(historyList) : useHistoryQuery(i, MaxSavesFeedback)
    \/ \E outcome \in FeedbackOutcomes : feedbackBtnClick(outcome)

SpecFeedback == Init /\ [][NextFeedback]_vars

(***************************************************************************)
(* Properties                                                              *)
(***************************************************************************)
\* the stored history, as every reader of the store sees it
History == parseHistory(localStorage)

\* lookup(q): the cached response useHistoryQuery renders for q, if any
Lookup(query) ==
    LET cachedEntry == findCachedEntry(History, query)
    IN  IF cachedEntry = None THEN None ELSE Some(cachedEntry[1].cachedResult)

Min(a, b) == IF a < b THEN a ELSE b

\* C1: in every reachable state the persisted history holds at most 10 entries
C1_HistoryAtMostTen == Len(History) <= 10

\* an 11th entry has been saved since the last clear and the history holds 10
C1_Witness == Len(insertLog) > 10 /\ Len(History) = 10

\* C2: after n successful searches with pairwise distinct queries and no
\* clear in between, the history is exactly the min(n, 10) entries saved
\* last, newest first (so the 11th save evicts the entry saved first)
C2_MostRecentFirst ==
    (\A i, j \in 1..Len(insertLog) : i # j => insertLog[i].query # insertLog[j].query)
        => History = SubSeq(insertLog, 1, Min(Len(insertLog), 10))

\* 11 distinct queries were saved: the first one saved is gone, the other
\* ten are there in their order
C2_Witness ==
    /\ Len(insertLog) = 11
    /\ \A i, j \in 1..11 : i # j => insertLog[i].query # insertLog[j].query
    /\ Lookup(insertLog[11].query) = None
    /\ \A i \in 1..10 : History[i] = insertLog[i]

\* C3 as claimed: a lookup of q after insert(q, R) returns R whenever q was
\* not inserted again, whatever the number of inserts of other queries
C3_AnyNumberOfInserts ==
    \A i \in 1..Len(insertLog) :
        (\A j \in 1..(i - 1) : insertLog[j].query # insertLog[i].query)
            => Lookup(insertLog[i].query) = Some(insertLog[i].cachedResult)

\* C3 as amended: a lookup of q after insert(q, R) returns exactly R provided
\* that, in between, q was not inserted again, the history was not cleared
\* and at most 9 other entries were inserted
C3_LookupAfterInsert ==
    \A i \in 1..Min(Len(insertLog), 10) :
        (\A j \in 1..(i - 1) : insertLog[j].query # insertLog[i].query)
            => Lookup(insertLog[i].query) = Some(insertLog[i].cachedResult)

\* nine other entries were inserted after q's, and q's response is still found
C3_Witness ==
    /\ Len(insertLog) >= 10
    /\ Lookup(insertLog[10].query) = Some(insertLog[10].cachedResult)

\* the values with which the form is submitted in Spec
SubmittedValues == InputValues \cup {queryInputValue}

\* q has an entry in the stored history
HasEntry(query) == \E k \in 1..Len(History) : History[k].query = query

\* every character of the value is white space
IsBlank(value) == \A k \in 1..Len(value) : value[k] \in WhiteSpace

\* the step is the submit handler running on a value that is not blank
SubmitsQuery(value) == searchFormSubmit(value, MaxSaves) /\ ~IsBlank(value)

\* the step is a click on the i-th history item whose button calls useHistoryQuery
ReplaysItem(i) == useHistoryQuery(i, MaxSaves)

C5_OneSearchInFlight ==
    /\ Len(pendingSearches) <= 1
    /\ pendingSearches # <<>> => (searchBtnDisabled /\ queryInputDisabled)

\* the search ends in the catch block
EndsInError(outcome) == outcome.rejected \/ ~outcome.ok

\* the search ends with a 2xx response without candidates
EndsEmpty(outcome) ==
    /\ ~outcome.rejected
    /\ outcome.ok
    /\ (outcome.data.candidates = None \/ outcome.data.candidates[1] = <<>>)

\* C6: a search that ends in Error leaves the persisted history as it was:
\* neither its submission nor its failure adds, removes or reorders an entry
C6_ErrorKeepsHistory ==
    [][/\ \A i \in 1..Len(pendingSearches) : \A outcome \in AllOutcomes :
            (EndsInError(outcome) /\ searchSongsResume(i, outcome))
                => (localStorage' = localStorage /\ historyList' = historyList)
       /\ Len(pendingSearches') > Len(pendingSearches)
            => (localStorage' = localStorage /\ historyList' = historyList)]_vars

\* a search has failed with history entries in the store
C6_Witness ==
    /\ ~statusMessage.hidden
    /\ statusMessage.type = "error"
    /\ statusMessage.text[1] = "Error: "
    /\ Len(History) > 0

\* C7: when a search settles in Error the results panel is hidden and an
\* error status is shown
C7_ErrorHidesResults ==
    [][\A i \in 1..Len(pendingSearches) : \A outcome \in AllOutcomes :
          (EndsInError(outcome) /\ searchSongsResume(i, outcome))
              => /\ resultsSectionHidden'
                 /\ ~statusMessage'.hidden
                 /\ statusMessage'.type = "error"]_vars

C9_BlankQueryRejected ==
    [][\A value \in SubmittedValues :
          (searchFormSubmit(value, MaxSaves) /\ IsBlank(value))
              => /\ pendingSearches' = pendingSearches
                 /\ ~searchBtnDisabled' /\ ~queryInputDisabled'
                 /\ resultsSectionHidden' = resultsSectionHidden
                 /\ candidatesList' = candidatesList
                 /\ localStorage' = localStorage
                 /\ historyList' = historyList
                 /\ statusMessage' = showStatus(<<"Query must not be empty">>, "error")]_vars

\* a blank value was submitted over shown results and was rejected
C9_Witness ==
    /\ queryInputValue = <<" ">>
    /\ statusMessage = showStatus(<<"Query must not be empty">>, "error")
    /\ ~resultsSectionHidden
    /\ pendingSearches = <<>>

\* the step is the confirm button running the clear action
ConfirmsClear == confirmModalConfirmClick /\ confirmCallback = Some("clearHistory")

\* C10: after a confirmed clear the history list is empty and the lookup of
\* every query that had an entry finds nothing, which is the case in which
\* useHistoryQuery goes to the network
C10_ClearEmptiesHistory ==
    [][ConfirmsClear =>
          /\ parseHistory(localStorage') = <<>>
          /\ historyList' = <<>>
          /\ \A k \in 1..Len(History) :
                findCachedEntry(parseHistory(localStorage'), History[k].query) = None]_vars

\* entries were saved and a confirmed clear has removed them
C10_Witness ==
    /\ now > 0
    /\ localStorage.kind = "null"
    /\ historyList = <<>>
    /\ ~confirmModalActive

\* the position of the front-most entry of the query in a history
FrontMost(history, query) ==
    CHOOSE k \in 1..Len(history) :
        /\ history[k].query = query
        /\ \A j \in 1..(k - 1) : history[j].query # query

\* C11: an insert for a query that already has an entry removes and
\* replaces nothing: every entry saved since the last clear is still stored
\* (up to the size bound), duplicates of a query included, and the lookup
\* of a query returns the response of its front-most entry, the one saved last
C11_DuplicatesKept ==
    /\ History = SubSeq(insertLog, 1, Min(Len(insertLog), 10))
    /\ \A k \in 1..Len(History) :
          Lookup(History[k].query)
              = Some(insertLog[FrontMost(insertLog, History[k].query)].cachedResult)

\* the same query was saved twice with different responses: both entries are
\* stored and the lookup returns the newer response
C11_Witness ==
    /\ Len(History) >= 2
    /\ History[1].query = History[2].query
    /\ History[1].cachedResult # History[2].cachedResult
    /\ Lookup(History[2].query) = Some(History[1].cachedResult)

\* the step empties a stored history that had entries
HistoryCleared == History # <<>> /\ parseHistory(localStorage') = <<>>

\* C12: in each visible cycle of the modal the stored confirm action runs at
\* most once however often confirm is clicked, and never on cancel or
\* overlay dismiss: the action runs only on a confirm click in the visible
\* modal, that step ends the cycle with no action left, a confirm click
\* outside a visible cycle runs nothing, and cancel and dismiss run nothing
C12_ConfirmActionOnce ==
    [][/\ HistoryCleared
            => /\ confirmModalConfirmClick
               /\ confirmModalActive /\ confirmCallback # None
               /\ ~confirmModalActive' /\ confirmCallback' = None
       /\ (confirmModalConfirmClick /\ confirmCallback # None)
            => (confirmModalActive /\ ~confirmModalActive' /\ confirmCallback' = None)
       /\ (confirmModalConfirmClick /\ ~confirmModalActive)
            => (localStorage' = localStorage /\ historyList' = historyList)
       /\ (confirmModalCancelClick \/ confirmModalOverlayClick)
            => /\ localStorage' = localStorage /\ historyList' = historyList
               /\ ~confirmModalActive' /\ confirmCallback' = None]_vars

\* a cycle of the modal, opened from the sidebar over a stored history, has
\* ended by confirm: the history is gone and no action is left
C12_Witness ==
    /\ now > 0
    /\ localStorage.kind = "null"
    /\ historySidebarActive
    /\ ~confirmModalActive
    /\ confirmCallback = None
    /\ bodyOverflow = ""

\* C13: a confirm action is stored exactly while the modal is visible, there
\* is at most one, and the modal leaves the visible state only by confirm,
\* cancel or overlay dismiss, each of which clears the stored action
C13_PendingIffVisible ==
    /\ []((confirmCallback # None) <=> confirmModalActive)
    /\ [](Len(confirmCallback) <= 1)
    /\ [][(confirmModalActive /\ ~confirmModalActive')
            => /\ \/ confirmModalConfirmClick
                  \/ confirmModalCancelClick
                  \/ confirmModalOverlayClick
               /\ confirmCallback' = None]_vars

\* the modal is visible over a stored history, with the clear action pending
C13_Witness ==
    /\ confirmModalActive
    /\ confirmCallback = Some("clearHistory")
    /\ Len(History) > 0

\* the card is collapsed: its full text is hidden
Collapsed(card) == card.lyricsFull # None /\ card.lyricsFull[1].display = "none"

\* C14: two toggles from Collapsed give Collapsed back with the preview text
\* and the button label of the card as created, for every lyrics text: every
\* collapsed card shows the preview text and the label createCandidateCard
\* gave it
C14_ToggleRoundTrip ==
    \A i \in 1..Len(candidatesList) :
        LET card == candidatesList[i]
            created == createCandidateCard(card.song, card.index, selectedSong.song)
        IN  Collapsed(card)
                => /\ card.lyricsPreview.text = created.lyricsPreview.text
                   /\ card.toggleBtn = created.toggleBtn
                   /\ card.lyricsPreview.display # "none"

\* the field is present and a number
IsNumber(field) == field # None /\ field[1].type = "number"

\* every score field of the song is absent or a number
WellFormed(song) ==
    \A field \in {song.match_percent, song.hybrid_score, song.similarity_distance} :
        field = None \/ IsNumber(field)

\* clamp(x, 0, 100), in thousandths
Clamp(x) == IF x < 0 THEN 0 ELSE IF x > 100000 THEN 100000 ELSE x

\* the reference normalizer, in thousandths, over the fields that count as
\* present: clamp(matchPercent), else clamp(hybridScore * 100), else
\* clamp((1 - min(distance, 2) / 2) * 100), else no score
Normalize(matchPercent, hybridScore, distance) ==
    IF matchPercent # None THEN Some(Clamp(matchPercent[1].number.milli))
    ELSE IF hybridScore # None THEN Some(Clamp(hybridScore[1].number.milli * 100))
    ELSE IF distance # None
         THEN Some(Clamp((1000 - Min(distance[1].number.milli, 2000) \div 2) * 100))
    ELSE None

\* the similarity of a card, in thousandths; None without an indicator
Rendered(card) ==
    IF card.similarity = None THEN None
    ELSE IF card.similarity[1].nan THEN Some("NaN")
    ELSE Some(card.similarity[1].milli)

\* C15: for every candidate whose score fields are numbers the rendered
\* score is that of the reference normalizer (matchPercent before
\* hybridScore before similarityDistance, no indicator without a field) and
\* lies within [0, 100]
C15_ScoreIsNormalized ==
    \A i \in 1..Len(candidatesList) :
        LET card == candidatesList[i]
            song == card.song
        IN  WellFormed(song)
                => /\ Rendered(card) = Normalize(song.match_percent, song.hybrid_score,
                                                  song.similarity_distance)
                   /\ card.similarity # None
                        => (card.similarity[1].milli >= 0 /\ card.similarity[1].milli <= 100000)

\* a card without match_percent whose hybrid score 1.5 and distance 2 give
\* different scores shows the one of the hybrid score, clamped to 100
C15_Witness ==
    /\ Len(candidatesList) = 1
    /\ candidatesList[1].song.match_percent = None
    /\ candidatesList[1].song.hybrid_score = Some(JsonNumber(1, 500))
    /\ candidatesList[1].song.similarity_distance = Some(JsonNumber(2, 0))
    /\ candidatesList[1].similarity = Some(Number(100, 0))
    /\ ~resultsSectionHidden

\* the card shows the score of the distance alone
DistanceOnly(card) ==
    /\ card.song.match_percent = None
    /\ card.song.hybrid_score = None
    /\ IsNumber(card.song.similarity_distance)

\* the score printed on the card, in tenths
Printed(card) == card.similarityLabel[1].tenths

\* C16 as claimed: the distances 0, 2, 0.5 and 0.4 are shown as 100.0, 0.0,
\* 87.5 and 80.0
C16_DistanceTableAsClaimed ==
    \A i \in 1..Len(candidatesList) :
        LET card == candidatesList[i]
            distance == card.song.similarity_distance[1].number
        IN  DistanceOnly(card)
                => /\ distance = Number(0, 0) => Printed(card) = 1000
                   /\ distance = Number(2, 0) => Printed(card) = 0
                   /\ distance = Number(0, 500) => Printed(card) = 875
                   /\ distance = Number(0, 400) => Printed(card) = 800

\* C16 as amended: the distances 0, 2, 0.5 and 0.4 are shown as 100.0, 0.0,
\* 75.0 and 80.0
C16_DistanceTable ==
    \A i \in 1..Len(candidatesList) :
        LET card == candidatesList[i]
            distance == card.song.similarity_distance[1].number
        IN  DistanceOnly(card)
                => /\ distance = Number(0, 0) => Printed(card) = 1000
                   /\ distance = Number(2, 0) => Printed(card) = 0
                   /\ distance = Number(0, 500) => Printed(card) = 750
                   /\ distance = Number(0, 400) => Printed(card) = 800

\* a card with the distance 0.5 and no other score field shows 75.0
C16_Witness ==
    /\ Len(candidatesList) = 1
    /\ DistanceOnly(candidatesList[1])
    /\ candidatesList[1].song.similarity_distance = Some(JsonNumber(0, 500))
    /\ Printed(candidatesList[1]) = 750

\* the field if it is a number, absent otherwise
NumberOrAbsent(field) == IF IsNumber(field) THEN field ELSE None

\* C17: a score field that is present but no number counts as absent: the
\* card shows the score of the fields that are numbers, none if there is none
C17_MalformedIsAbsent ==
    \A i \in 1..Len(candidatesList) :
        LET card == candidatesList[i]
            song == card.song
        IN  Rendered(card) = Normalize(NumberOrAbsent(song.match_percent),
                                       NumberOrAbsent(song.hybrid_score),
                                       NumberOrAbsent(song.similarity_distance))

\* C18: a card is marked selected exactly when a selected item exists, the
\* candidate and the selected item both carry an identifier, and the
\* identifiers are equal
C18_SelectedMarking ==
    \A i \in 1..Len(candidatesList) :
        LET card == candidatesList[i]
            selected == selectedSong.song
        IN  card.selected <=> /\ selected # None
                              /\ card.song.id # None
                              /\ selected[1].id # None
                              /\ card.song.id = selected[1].id

\* C19 (the stored item does not parse): the insert after a successful
\* search behaves as on an empty history, i.e. stores the one new entry and
\* shows the status of the search, and the listing at page load shows an
\* empty list
C19_CorruptHistoryAsEmpty ==
    [][/\ \A i \in 1..Len(pendingSearches) : \A outcome \in AllOutcomes :
            (/\ localStorage = InvalidItem
             /\ hasCandidates(outcome.data) /\ outcome.ok /\ ~outcome.rejected
             /\ searchSongsResume(i, outcome))
                => /\ localStorage' = saveSearchHistory(removeItem, pendingSearches[i],
                                                        outcome.data, now + 1)
                   /\ statusMessage' = successStatus(outcome.data)
       /\ \A health \in HealthOutcomes :
            (localStorage = InvalidItem /\ windowLoadResume(health)) => historyList' = <<>>]_vars

\* C20: every search that enters Searching leaves it, given that its
\* request is answered or fails in the end: whenever the submission control
\* is disabled it is enabled again later, with the query field
C20_SearchingEnds ==
    searchBtnDisabled ~> (~searchBtnDisabled /\ ~queryInputDisabled)

\* a search has ended in the catch block, nothing is outstanding, nothing
\* was ever stored, and the form can be used
C20_Witness ==
    /\ statusMessage.type = "error"
    /\ statusMessage.text[1] = "Error: "
    /\ pendingSearches = <<>>
    /\ now = 0
    /\ ~searchBtnDisabled
    /\ ~queryInputDisabled

\* the search ends with a 2xx response that has candidates
EndsInSuccess(outcome) == ~EndsInError(outcome) /\ ~EndsEmpty(outcome)

\* C21: a search that ends in Success puts exactly one entry in front of the
\* history, with the trimmed query of the search, the title of the selected
\* item (none without a selected item) and the whole response; and every
\* stored query is trimmed and not empty
C21_SuccessAddsEntry ==
    [][\A i \in 1..Len(pendingSearches) : \A outcome \in AllOutcomes :
          (EndsInSuccess(outcome) /\ searchSongsResume(i, outcome))
              => LET stored == parseHistory(localStorage')
                     data == outcome.data
                 IN  /\ stored # <<>>
                     /\ stored[1].query = trim(pendingSearches[i])
                     /\ stored[1].selectedTitle =
                            (IF data.selected = None THEN None ELSE data.selected[1].title)
                     /\ stored[1].cachedResult = data
                     /\ Tail(stored) = SubSeq(History, 1, Len(stored) - 1)
                     /\ Len(stored) = Min(Len(History) + 1, 10)
                     /\ \A k \in 1..Len(stored) :
                            stored[k].query # <<>> /\ trim(stored[k].query) = stored[k].query]_vars

\* C22: at most one feedback submission is sent for a displayed selection
\* however often the controls are clicked, and a closed gate stays closed
\* until a search is issued or a result is displayed anew
C22_OneFeedbackPerSelection ==
    /\ [](feedbackGate.sent <= 1)
    /\ [](feedbackGate.submitted <=> feedbackGate.sent = 1)
    /\ [][feedbackGate.submitted
            => \/ feedbackGate' = feedbackGate
               \/ /\ feedbackGate' = FeedbackOpen
                  /\ \/ Len(pendingSearches') # Len(pendingSearches)
                     \/ \E i \in 1..Len(historyList) : useHistoryQuery(i, MaxSavesFeedback)]_vars

\* feedback was submitted for the displayed selection: the gate is closed
\* and one request was sent
C22_Witness ==
    /\ ~resultsSectionHidden
    /\ currentSearchResult # None
    /\ currentSearchResult[1].selected # None
    /\ feedbackGate = [submitted |-> TRUE, sent |-> 1]

\* C23: a search that was issued settles in exactly one of Error (rejected
\* request or non-2xx status), Empty (2xx, no candidate) and Success (2xx
\* with a candidate, with or without a selected item: without one the
\* placeholder is shown and the response is cached all the same), each
\* with its status shown, so never in Idle
C23_SettlesInOneState ==
    [][\A i \in 1..Len(pendingSearches) : \A outcome \in CardOutcomes :
          searchSongsResume(i, outcome)
              => /\ ~statusMessage'.hidden
                 /\ EndsInError(outcome) => statusMessage'.type = "error"
                 /\ EndsEmpty(outcome) => statusMessage'.type = "info"
                 /\ EndsInSuccess(outcome)
                      => /\ statusMessage'.type \in {"success", "warning"}
                         /\ ~resultsSectionHidden'
                         /\ Len(candidatesList') = Len(outcome.data.candidates[1])
                         /\ selectedSong'.unavailable <=> outcome.data.selected = None
                         /\ parseHistory(localStorage') # <<>>
                         /\ parseHistory(localStorage')[1].cachedResult = outcome.data]_vars

\* a search has settled in Success without a selected item: the placeholder
\* is shown with the candidates and the response is cached
C23_Witness ==
    /\ pendingSearches = <<>>
    /\ ~resultsSectionHidden
    /\ selectedSong.unavailable
    /\ candidatesList # <<>>
    /\ statusMessage.type = "warning"
    /\ History # <<>>
    /\ History[1].cachedResult.selected = None

\* C24: every render of a response, fresh or replayed from the cache, shows
\* a status of type warning when the response carries the warning flag and
\* of type success when it does not
C24_WarningStatusOnRender ==
    [][/\ \A i \in 1..Len(pendingSearches) : \A outcome \in AllOutcomes :
            (EndsInSuccess(outcome) /\ searchSongsResume(i, outcome))
                => statusMessage'.type =
                       (IF outcome.data.warning = Some(TRUE) THEN "warning" ELSE "success")
       /\ \A i \in 1..Len(historyList) :
            (ReplaysItem(i) /\ pendingSearches' = pendingSearches)
                => LET cachedEntry == findCachedEntry(History, historyList[i].onclick[1])
                   IN  cachedEntry # None
                         => statusMessage'.type =
                                (IF cachedEntry[1].cachedResult.warning = Some(TRUE)
                                 THEN "warning" ELSE "success")]_vars

\* the full text of the card is shown
Expanded(card) == card.lyricsFull # None /\ card.lyricsFull[1].display = "block"

\* the step renders a response: a search ends in Success, or a history item
\* is replayed from the cache
RendersCards ==
    \/ \E i \in 1..Len(pendingSearches) : \E outcome \in CardOutcomes :
          EndsInSuccess(outcome) /\ searchSongsResume(i, outcome)
    \/ \E i \in 1..Len(historyList) :
          /\ useHistoryQuery(i, MaxSavesCards)
          /\ pendingSearches' = pendingSearches
          /\ findCachedEntry(History, historyList[i].onclick[1]) # None

\* the step is a click in the i-th card on the target
ClicksCard(i, target) ==
    IF target = "toggle-lyrics-btn" THEN toggleLyricsBtnClick(i)
    ELSE candidateCardClick(i, target)

\* C25: right after a render, fresh or replayed, every card is Collapsed
\* (none is Expanded, and a card with lyrics hides its full text behind the
\* label it is created with), whichever cards were Expanded before
C25_CollapsedAfterRender ==
    [][RendersCards
          => \A i \in 1..Len(candidatesList') :
                LET card == candidatesList'[i]
                IN  /\ ~Expanded(card)
                    /\ card.lyricsFull # None => Collapsed(card)
                    /\ card.lyricsPreview.display = ""
                    /\ card.toggleBtn \in {None, Some("Show text"), Some("Show full text")}]_vars

\* a replay from the cache has rendered cards with lyrics, all Collapsed
C25_Witness ==
    /\ statusMessage.text = <<"Results loaded from cache">>
    /\ ~resultsSectionHidden
    /\ \E i \in 1..Len(candidatesList) : Collapsed(candidatesList[i])
    /\ \A i \in 1..Len(candidatesList) :
           ~Expanded(candidatesList[i]) /\ candidatesList[i].lyricsPreview.display = ""

\* C26: one click changes the expand state of a card at most once: a click
\* on the toggle button and a click on the card itself each toggle the card
\* exactly once, a click on the open-in-app link toggles nothing, no click
\* touches another card, and without a click or a render no card changes
C26_OneToggleAClick ==
    [][/\ \A i \in 1..Len(candidatesList) : \A target \in ClickTargets :
            ClicksCard(i, target)
                => /\ \A k \in 1..Len(candidatesList) :
                         k # i => candidatesList'[k] = candidatesList[k]
                   /\ Len(candidatesList') = Len(candidatesList)
                   /\ IF target = "open-in-app-btn" \/ candidatesList[i].lyricsFull = None
                      THEN candidatesList'[i] = candidatesList[i]
                      ELSE /\ Expanded(candidatesList'[i]) <=> ~Expanded(candidatesList[i])
                           /\ candidatesList'[i] = toggleLyrics(candidatesList[i])
       /\ candidatesList' # candidatesList
            => \/ RendersCards
               \/ \E i \in 1..Len(candidatesList) : \E target \in ClickTargets :
                     ClicksCard(i, target)]_vars

\* a card is Expanded next to a Collapsed one and a card without lyrics
C26_Witness ==
    /\ ~resultsSectionHidden
    /\ \E i, k \in 1..Len(candidatesList) :
          /\ Expanded(candidatesList[i])
          /\ candidatesList[i].song.id # None
          /\ Collapsed(candidatesList[k])
          /\ candidatesList[k].lyricsPreview.display = "block"
    /\ \E i \in 1..Len(candidatesList) : candidatesList[i].lyricsFull = None

\* the step is one that the history has to survive: a replay from the
\* cache, a click in a card, opening or closing the sidebar, opening,
\* cancelling or dismissing the modal, a validation error, a search that is
\* issued, and a search that ends Empty or in Error
KeepsHistory ==
    \/ \E i \in 1..Len(historyList) :
          useHistoryQuery(i, MaxSavesCards) /\ pendingSearches' = pendingSearches
    \/ \E i \in 1..Len(candidatesList) : \E target \in ClickTargets : ClicksCard(i, target)
    \/ historyMenuBtnClick
    \/ closeHistoryBtnClick
    \/ sidebarOverlayClick
    \/ clearHistoryBtnClick
    \/ confirmModalCancelClick
    \/ confirmModalOverlayClick
    \/ \E value \in { <<" ">>, <<"a">> } : searchFormSubmit(value, MaxSavesCards)
    \/ \E i \in 1..Len(pendingSearches) : \E outcome \in CardOutcomes :
          ~EndsInSuccess(outcome) /\ searchSongsResume(i, outcome)

\* C27: the persisted history changes only when a search ends in Success
\* (an entry is put in front) and when a clear is confirmed (it is emptied);
\* a replay from the cache, card toggles, the sidebar, opening and
\* cancelling the modal, validation errors and searches that end Empty or in
\* Error leave it as it is
C27_HistoryFrame ==
    [][/\ localStorage' # localStorage
            => \/ /\ \E i \in 1..Len(pendingSearches) : \E outcome \in CardOutcomes :
                        EndsInSuccess(outcome) /\ searchSongsResume(i, outcome)
                  /\ Tail(parseHistory(localStorage')) = History
               \/ ConfirmsClear /\ parseHistory(localStorage') = <<>>
       /\ KeepsHistory => localStorage' = localStorage]_vars

\* the history has an entry while a card is Expanded, the sidebar is open
\* and the modal asks for confirmation
C27_Witness ==
    /\ Len(History) = 1
    /\ confirmModalActive
    /\ historySidebarActive
    /\ \E i \in 1..Len(candidatesList) : Expanded(candidatesList[i])

\* C28: from an empty store every entry caches a response with at least
\* one candidate, so the replay of an item of the history list renders a
\* list of candidates that is not empty and issues no request
C28_ReplayNeverEmptyNorNetwork ==
    /\ [](\A k \in 1..Len(History) : hasCandidates(History[k].cachedResult))
    /\ [][\A i \in 1..Len(historyList) :
             ReplaysItem(i)
                 => /\ pendingSearches' = pendingSearches
                    /\ candidatesList' # <<>>
                    /\ ~resultsSectionHidden']_vars

\* C29: scrolling of the page is locked whenever the sidebar or the modal
\* is open
C29_ScrollLockedUnderOverlay ==
    (historySidebarActive \/ confirmModalActive) => bodyOverflow = "hidden"

====
